---- MODULE Spec2Model ----
(***************************************************************************)
(* evals/utils/api_utils.py: the two retrying wrappers around the OpenAI   *)
(* completion calls (backoff.on_exception with backoff.expo) and           *)
(* request_with_timeout, the thread-pool executor that bounds the wait for *)
(* one call.                                                               *)
(*                                                                         *)
(* One behaviour of the model is one call by one caller of one of the      *)
(* three functions.  The remote call (openai.Completion.create,            *)
(* openai.ChatCompletion.create, or the func handed to                     *)
(* request_with_timeout) is the environment: each invocation picks what it *)
(* returns or raises and how long it takes.                                *)
(*                                                                         *)
(* Delays are counted in units of 1/factor[2] second (half seconds), so    *)
(* that factor = 1.5 stays an integer.                                     *)
(***************************************************************************)
EXTENDS Integers, Sequences, FiniteSets, TLC

VARIABLES
    entry,        \* the function the caller called
    request,      \* the args and kwargs the caller passed
    env,          \* "arbitrary" or "transient" behaviour of the remote call
    budget,       \* transient failures the remote call may still produce
    pc,           \* position of the caller's thread
    tries,        \* backoff: invocations of the decorated target so far
    calls,        \* invocations of the remote call so far
    received,     \* the bundle the latest remote invocation was given
    timeout,      \* request_with_timeout: the bound of future.result
    worker,       \* the latest remote invocation: what it returns or raises
    running,      \* remote invocations still executing
    result,       \* the value returned to the caller
    exc,          \* the exception last raised by an attempt
    sleeps,       \* backoff: delays taken so far (position of the wait generator)
    value,        \* backoff: the last value of the wait generator
    seconds,      \* backoff: the last delay slept
    warnings,     \* records given to logging.warning
    logged,       \* the last record given to logging.warning
    discards,     \* attempts abandoned by future.result's timeout
    absorbed,     \* TimeoutErrors raised by the callable and caught at line 62
    overdue,      \* remote invocations that ran past the bound
    abandoned,    \* what the latest abandoned invocation returned or raised
    raisedRetryable, \* attempts that completed by raising a retryable exception
    embedded,     \* attempts that completed by returning an embedded error
    inv,          \* several callers: the state of each invocation of a wrapper
    gen           \* several callers: the position of each wait generator

vars == <<entry, request, env, budget, pc, tries, calls, received, timeout,
          worker, running, result, exc, sleeps, value, seconds, warnings,
          logged, discards, absorbed, overdue, abandoned, raisedRetryable,
          embedded, inv, gen>>

----------------------------------------------------------------------------
(* Bounds of the model *)

MaxCalls == 8       \* invocations of the remote call in one behaviour
MaxFailures == 2    \* failures of a transient remote call
MaxCallsEach == 3   \* invocations of the remote call by each of several callers

----------------------------------------------------------------------------
(* Program constants *)

EVALS_THREAD_TIMEOUT == 40
max_value == 60
factor == <<3, 2>>         \* 1.5 as numerator and denominator
base == 2                  \* backoff.expo's default base

Min(a, b) == IF a <= b THEN a ELSE b

RECURSIVE Pow(_, _)
Pow(b, k) == IF k = 0 THEN 1 ELSE b * Pow(b, k - 1)

RetryableErrors ==
    {"ServiceUnavailableError", "APIError", "RateLimitError",
     "APIConnectionError", "Timeout"}

FuturesTimeoutError == "concurrent.futures.TimeoutError"

FatalErrors == {"InvalidRequestError", FuturesTimeoutError}

ErrorKinds == RetryableErrors \cup FatalErrors

(* An exception: its class, its argument, and who constructed it. *)
Exception(kind, arg, by) == [kind |-> kind, arg |-> arg, by |-> by]

NoException == Exception("none", "none", "none")

RemoteExceptions == {Exception(k, "remote", "remote") : k \in ErrorKinds}

(* Responses are dicts; an embedded error is the key "error". *)
CleanResponses == {[choices |-> "c1"], [choices |-> "c2"]}

ErrorResponses == {[error |-> "rate limited"],
                   [choices |-> "c1", error |-> "overloaded"]}

Responses == CleanResponses \cup ErrorResponses

NoResponse == [none |-> "none"]

HasError(r) == "error" \in DOMAIN r

(* The bundles a caller passes. *)
Requests ==
    {[args |-> <<>>, kwargs |-> [model |-> "m1"]],
     [args |-> <<"prompt">>, kwargs |-> [model |-> "m2"]],
     [args |-> <<>>, kwargs |-> [model |-> "m1", timeout |-> 20]]}

NoRequest == [args |-> <<>>, kwargs |-> [none |-> "none"]]

Entries == {"openai_completion_create_retrying",
            "openai_chat_completion_create_retrying",
            "request_with_timeout"}

Wrappers == Entries \ {"request_with_timeout"}

(* How long an invocation of the remote call runs, in seconds. *)
Durations == {10, 50}

(* One invocation of the remote call: it returns val or raises exc after  *)
(* dur seconds, or never finishes.                                         *)
Returns(r, d) == [type |-> "return", val |-> r, exc |-> NoException, dur |-> d]
Raises(e, d) == [type |-> "raise", val |-> NoResponse, exc |-> e, dur |-> d]
Hangs == [type |-> "hang", val |-> NoResponse, exc |-> NoException, dur |-> 0]
NoWorker == [type |-> "none", val |-> NoResponse, exc |-> NoException, dur |-> 0]

----------------------------------------------------------------------------
(* request_with_timeout, line 52, has the parameters func, args, timeout   *)
(* (keyword only, default EVALS_THREAD_TIMEOUT) and kwargs:                 *)
(* Python binds a keyword named timeout to the parameter, the other         *)
(* keywords to **kwargs.                                                    *)

ExecutorTimeout(b) ==
    IF "timeout" \in DOMAIN b.kwargs THEN b.kwargs.timeout
    ELSE EVALS_THREAD_TIMEOUT

ExecutorForwarded(b) ==
    [args |-> b.args,
     kwargs |-> [k \in DOMAIN b.kwargs \ {"timeout"} |-> b.kwargs[k]]]

(* What each entry point hands to the remote call. *)
Forwarded(e, b) ==
    IF e = "openai_completion_create_retrying" THEN b ELSE ExecutorForwarded(b)

(* A wait without a bound: future.result(). *)
DoneInTime_unbounded(w, t) == w.type \in {"return", "raise"}

(* future.result(timeout=timeout) has the worker's outcome in time. *)
DoneInTime(w, t) == w.type \in {"return", "raise"} /\ w.dur <= t

(* A bare except clause. *)
Caught_everything(e) == TRUE

(* Line 62: except concurrent.futures.TimeoutError. *)
Caught(e) == e.kind = FuturesTimeoutError

(* Only a Response made of the error alone is taken for an error. *)
IsEmbeddedError_alone(r) == HasError(r) /\ DOMAIN r = {"error"}

(* The test inverted. *)
IsEmbeddedError_inverted(r) == ~HasError(r)

(* Line 46 and 84: "error" in result. *)
IsEmbeddedError(r) == HasError(r)

(* Lines 48 and 86: openai_error.APIError(result["error"]); the subscript *)
(* of a dict without the key raises KeyError.                              *)
Reclassified(r) ==
    IF HasError(r) THEN Exception("APIError", r.error, "wrapper")
    ELSE Exception("KeyError", "error", "wrapper")

----------------------------------------------------------------------------
(* The remote call *)

Quick == {d \in Durations : \A b \in Requests : d <= ExecutorTimeout(b)}

(* Only the executor looks at the clock. *)
DurationsOf(e) ==
    IF e = "openai_completion_create_retrying" THEN Quick ELSE Durations

(* The invocation runs past the bound t. *)
PastBound(o, t) == o.type = "hang" \/ o.dur > t

ArbitraryOutcomes(e) ==
    {Returns(r, d) : r \in Responses, d \in Quick}
        \cup {Raises(x, d) : x \in RemoteExceptions, d \in Quick}
        \cup {Returns(r, d) : r \in Responses, d \in DurationsOf(e) \ Quick}
        \cup {Raises(x, d) : x \in {y \in RemoteExceptions :
                                      y.kind = "InvalidRequestError"},
                             d \in DurationsOf(e) \ Quick}
        \cup {Hangs}

CleanOutcomes == {Returns(r, d) : r \in CleanResponses, d \in Quick}

TransientFailures(e) ==
    {Returns(r, d) : r \in ErrorResponses, d \in Quick}
        \cup {Raises(x, d) : x \in {y \in RemoteExceptions :
                                      y.kind \in RetryableErrors}, d \in Quick}
        \cup {Returns(r, d) : r \in CleanResponses, d \in DurationsOf(e) \ Quick}

Outcomes(e, mode, b) ==
    IF mode = "arbitrary" THEN ArbitraryOutcomes(e)
    ELSE CleanOutcomes \cup (IF b > 0 THEN TransientFailures(e) ELSE {})

Spend(mode, b, o) ==
    IF mode = "transient" /\ o \notin CleanOutcomes THEN b - 1 ELSE b

----------------------------------------------------------------------------
(* backoff.on_exception(wait_gen=backoff.expo, exception=(...),             *)
(*                      max_value=60, factor=1.5)                           *)

(* backoff.expo counting from 1 instead of 0. *)
expo_from_one(k) == Min(max_value * factor[2], factor[1] * Pow(base, k + 1))

(* backoff.expo without max_value. *)
expo_uncapped(k) == factor[1] * Pow(base, k)

(* backoff.expo: the k-th value, factor * base^k capped at max_value. *)
expo(k) == Min(max_value * factor[2], factor[1] * Pow(base, k))

(* The default jitter, random.uniform(0, value): three of its samples. *)
full_jitter(v) == {0, v \div 2, v}

(* max_tries=2. *)
max_tries_exceeded_at_2(t) == t = 2

(* max_tries is left at None: the number of tries never ends the loop. *)
max_tries_exceeded(t) == FALSE

(* exception=Exception. *)
IsRetryable_everything(e) == TRUE

(* exception=(...): isinstance against the five classes. *)
IsRetryable(e) == e.kind \in RetryableErrors

----------------------------------------------------------------------------
Init ==
    /\ entry \in Entries
    /\ request \in Requests
    /\ env \in {"arbitrary", "transient"}
    /\ budget \in IF env = "transient" THEN 0..MaxFailures ELSE {0}
    /\ pc = "Idle"
    /\ tries = 0
    /\ calls = 0
    /\ received = NoRequest
    /\ timeout = EVALS_THREAD_TIMEOUT
    /\ worker = NoWorker
    /\ running = 0
    /\ result = NoResponse
    /\ exc = NoException
    /\ sleeps = 0
    /\ value = 0
    /\ seconds = 0
    /\ warnings = 0
    /\ logged = NoResponse
    /\ discards = 0
    /\ absorbed = 0
    /\ overdue = 0
    /\ abandoned = NoWorker
    /\ raisedRetryable = 0
    /\ embedded = 0
    /\ inv = <<>>
    /\ gen = <<>>

(* The caller calls the function. *)
Call ==
    /\ pc = "Idle"
    /\ IF entry = "request_with_timeout"
       THEN pc' = "Submit" /\ timeout' = ExecutorTimeout(request)
       ELSE pc' = "Attempting" /\ UNCHANGED timeout
    /\ UNCHANGED <<entry, request, env, budget, tries, calls, received,
                   worker, running, result, exc, sleeps, value, seconds,
                   warnings, logged, discards, absorbed, overdue,
                   raisedRetryable, embedded>>
    /\ UNCHANGED abandoned
    /\ UNCHANGED <<inv, gen>>

(* logging.warning(result) moved before the if: every Response is logged. *)
Finish_logs_all(o) ==
    /\ IF o.type = "return" /\ ~IsEmbeddedError(o.val)
       THEN /\ warnings' = warnings + 1
            /\ logged' = o.val
            /\ result' = o.val
            /\ pc' = "Success"
            /\ UNCHANGED exc
       ELSE /\ UNCHANGED result
            /\ IF o.type = "return"
               THEN /\ warnings' = warnings + 1
                    /\ logged' = o.val
                    /\ exc' = Reclassified(o.val)
               ELSE /\ exc' = o.exc
                    /\ UNCHANGED <<warnings, logged>>
            /\ pc' = IF IsRetryable(exc') THEN "RetryableFailure"
                     ELSE "FatalFailure"
    /\ embedded' = IF o.type = "return" /\ HasError(o.val)
                   THEN embedded + 1 ELSE embedded
    /\ raisedRetryable' = IF o.type = "raise" /\ o.exc.kind \in RetryableErrors
                          THEN raisedRetryable + 1 ELSE raisedRetryable

(* Lines 46-49 and 84-87 on the outcome o of the remote call, then the     *)
(* except clause of backoff's retry loop on what the target raised.        *)
Finish(o) ==
    /\ IF o.type = "return" /\ ~IsEmbeddedError(o.val)
       THEN /\ result' = o.val
            /\ pc' = "Success"
            /\ UNCHANGED <<exc, warnings, logged>>
       ELSE /\ UNCHANGED result
            /\ IF o.type = "return"
               THEN /\ warnings' = warnings + 1
                    /\ logged' = o.val
                    /\ exc' = Reclassified(o.val)
               ELSE /\ exc' = o.exc
                    /\ UNCHANGED <<warnings, logged>>
            /\ pc' = IF IsRetryable(exc') THEN "RetryableFailure"
                     ELSE "FatalFailure"
    /\ embedded' = IF o.type = "return" /\ HasError(o.val)
                   THEN embedded + 1 ELSE embedded
    /\ raisedRetryable' = IF o.type = "raise" /\ o.exc.kind \in RetryableErrors
                          THEN raisedRetryable + 1 ELSE raisedRetryable

(* Line 45: the plain variant calls openai.Completion.create. *)
CompletionInvoke ==
    /\ pc = "Attempting"
    /\ entry = "openai_completion_create_retrying"
    /\ calls < MaxCalls
    /\ \E o \in Outcomes(entry, env, budget) :
         /\ worker' = o
         /\ budget' = Spend(env, budget, o)
    /\ tries' = tries + 1
    /\ calls' = calls + 1
    /\ received' = Forwarded(entry, request)
    /\ running' = running + 1
    /\ pc' = "InCall"
    /\ UNCHANGED <<entry, request, env, timeout, result, exc, sleeps, value,
                   seconds, warnings, logged, discards, absorbed, overdue,
                   raisedRetryable, embedded>>
    /\ UNCHANGED abandoned
    /\ UNCHANGED <<inv, gen>>

(* Lines 45-49: openai.Completion.create returns or raises. *)
CompletionReturn ==
    /\ pc = "InCall"
    /\ worker.type \in {"return", "raise"}
    /\ running' = running - 1
    /\ Finish(worker)
    /\ UNCHANGED <<entry, request, env, budget, tries, calls, received,
                   timeout, worker, sleeps, value, seconds, discards,
                   absorbed, overdue>>
    /\ UNCHANGED abandoned
    /\ UNCHANGED <<inv, gen>>

(* Line 83: the guarded variant calls request_with_timeout. *)
ChatAttempt ==
    /\ pc = "Attempting"
    /\ entry = "openai_chat_completion_create_retrying"
    /\ tries' = tries + 1
    /\ timeout' = ExecutorTimeout(request)
    /\ pc' = "Submit"
    /\ UNCHANGED <<entry, request, env, budget, calls, received, worker,
                   running, result, exc, sleeps, value, seconds, warnings,
                   logged, discards, absorbed, overdue, raisedRetryable,
                   embedded>>
    /\ UNCHANGED abandoned
    /\ UNCHANGED <<inv, gen>>

(* Lines 57-58: a fresh one-worker pool runs func on args and kwargs. *)
Submit ==
    /\ pc = "Submit"
    /\ calls < MaxCalls
    /\ \E o \in Outcomes(entry, env, budget) :
         /\ worker' = o
         /\ budget' = Spend(env, budget, o)
         /\ overdue' = IF PastBound(o, timeout) THEN overdue + 1 ELSE overdue
    /\ calls' = calls + 1
    /\ received' = Forwarded(entry, request)
    /\ running' = running + 1
    /\ pc' = "Waiting"
    /\ UNCHANGED <<entry, request, env, tries, timeout, result, exc, sleeps,
                   value, seconds, warnings, logged, discards, absorbed,
                   raisedRetryable, embedded>>
    /\ UNCHANGED abandoned
    /\ UNCHANGED <<inv, gen>>

(* The wait reads the future of an abandoned invocation when there is one. *)
WaitCompleted_stale ==
    LET w == IF abandoned.type \in {"return", "raise"} THEN abandoned
             ELSE worker
    IN  /\ running' = running - 1
        /\ IF w.type = "raise" /\ Caught(w.exc)
           THEN /\ absorbed' = absorbed + 1
                /\ pc' = "Submit"
                /\ UNCHANGED <<result, exc, warnings, logged, embedded,
                               raisedRetryable>>
           ELSE /\ UNCHANGED absorbed
                /\ IF entry = "request_with_timeout"
                   THEN /\ IF w.type = "return"
                           THEN /\ result' = w.val
                                /\ pc' = "Success"
                                /\ UNCHANGED exc
                           ELSE /\ exc' = w.exc
                                /\ pc' = "FatalFailure"
                                /\ UNCHANGED result
                        /\ UNCHANGED <<warnings, logged, embedded,
                                       raisedRetryable>>
                   ELSE Finish(w)

(* Lines 60-61, and 62-63 for what the callable raised: future.result    *)
(* returns the callable's value or re-raises its exception; the except    *)
(* clause catches a concurrent.futures.TimeoutError of the callable too.  *)
(* Return and raise leave the with block of a pool whose worker has ended. *)
WaitCompleted ==
    /\ running' = running - 1
    /\ IF worker.type = "raise" /\ Caught(worker.exc)
       THEN /\ absorbed' = absorbed + 1
            /\ pc' = "Submit"
            /\ UNCHANGED <<result, exc, warnings, logged, embedded,
                           raisedRetryable>>
       ELSE /\ UNCHANGED absorbed
            /\ IF entry = "request_with_timeout"
               THEN /\ IF worker.type = "return"
                       THEN /\ result' = worker.val
                            /\ pc' = "Success"
                            /\ UNCHANGED exc
                       ELSE /\ exc' = worker.exc
                            /\ pc' = "FatalFailure"
                            /\ UNCHANGED result
                    /\ UNCHANGED <<warnings, logged, embedded,
                                   raisedRetryable>>
               ELSE Finish(worker)

(* The except clause raising openai_error.Timeout instead of continuing. *)
WaitTimedOut_raising ==
    /\ exc' = Exception("Timeout", "wait", "executor")
    /\ pc' = IF entry = "request_with_timeout" THEN "FatalFailure"
             ELSE "RetryableFailure"
    /\ UNCHANGED <<running, absorbed, result, warnings, logged, embedded,
                   raisedRetryable>>

(* Lines 62-63: future.result raises concurrent.futures.TimeoutError; the  *)
(* except clause continues the loop, which first leaves the with block.    *)
WaitTimedOut ==
    /\ pc' = "Shutdown"
    /\ UNCHANGED <<running, absorbed, result, exc, warnings, logged,
                   embedded, raisedRetryable>>

(* Lines 59-63: the wait for the future. *)
FutureResult ==
    /\ pc = "Waiting"
    /\ IF DoneInTime(worker, timeout) THEN WaitCompleted ELSE WaitTimedOut
    /\ UNCHANGED <<entry, request, env, budget, tries, calls, received,
                   timeout, worker, sleeps, value, seconds, discards, overdue>>
    /\ UNCHANGED abandoned
    /\ UNCHANGED <<inv, gen>>

(* The pool left with shutdown(wait=False): the loop goes on at once. *)
ShutdownWait_nowait ==
    /\ pc = "Shutdown"
    /\ discards' = discards + 1
    /\ abandoned' = worker
    /\ pc' = "Submit"
    /\ UNCHANGED <<entry, request, env, budget, tries, calls, received,
                   timeout, worker, running, result, exc, sleeps, value,
                   seconds, warnings, logged, absorbed, overdue,
                   raisedRetryable, embedded>>
    /\ UNCHANGED <<inv, gen>>

(* Line 57: leaving the with block is executor.shutdown(wait=True), which  *)
(* joins the worker; the loop goes on when the abandoned call has ended.   *)
(* Its future keeps what the call returned or raised; nothing reads it.    *)
ShutdownWait ==
    /\ pc = "Shutdown"
    /\ worker.type \in {"return", "raise"}
    /\ running' = running - 1
    /\ discards' = discards + 1
    /\ abandoned' = worker
    /\ pc' = "Submit"
    /\ UNCHANGED <<entry, request, env, budget, tries, calls, received,
                   timeout, worker, result, exc, sleeps, value, seconds,
                   warnings, logged, absorbed, overdue, raisedRetryable,
                   embedded>>
    /\ UNCHANGED <<inv, gen>>

(* backoff's retry loop after a retryable exception: give up and re-raise, *)
(* or take the next wait of the generator, jitter it and sleep; the        *)
(* exception is dropped at the end of the except clause, the future with   *)
(* the frame of the target.                                                *)
Backoff ==
    /\ pc = "RetryableFailure"
    /\ IF max_tries_exceeded(tries)
       THEN /\ pc' = "FatalFailure"
            /\ UNCHANGED <<sleeps, value, seconds, exc, worker, abandoned>>
       ELSE /\ value' = expo(sleeps)
            /\ seconds' \in full_jitter(value')
            /\ sleeps' = sleeps + 1
            /\ exc' = NoException
            /\ worker' = NoWorker
            /\ abandoned' = NoWorker
            /\ pc' = "Attempting"
    /\ UNCHANGED <<entry, request, env, budget, tries, calls, received,
                   timeout, running, result, warnings, logged, discards,
                   absorbed, overdue, raisedRetryable, embedded>>
    /\ UNCHANGED <<inv, gen>>

Next ==
    \/ Call
    \/ CompletionInvoke
    \/ CompletionReturn
    \/ ChatAttempt
    \/ Submit
    \/ FutureResult
    \/ ShutdownWait
    \/ Backoff

Spec == Init /\ [][Next]_vars

(* The remote call does what a transient failure does, and the caller's   *)
(* thread, the sleep and the worker go on running.                         *)
LiveInit == Init /\ env = "transient"

LiveSpec == LiveInit /\ [][Next]_vars /\ WF_vars(Next)

Terminal == {"Success", "FatalFailure"}

TypeOK ==
    /\ entry \in Entries
    /\ request \in Requests
    /\ pc \in {"Idle", "Attempting", "InCall", "Submit", "Waiting", "Shutdown",
               "RetryableFailure"} \cup Terminal
    /\ calls \in 0..MaxCalls
    /\ running \in 0..1

(* The latest remote invocation has ended by returning or raising. *)
Ended == running = 0 /\ worker.type \in {"return", "raise"}

----------------------------------------------------------------------------
(* C1: in both wrappers a Response with the key "error" is never returned  *)
(* to the caller; when an attempt ends with such a Response the wrapper    *)
(* has raised an APIError whose argument is the embedded error.            *)
C1_EmbeddedErrorRaised ==
    entry \in Wrappers =>
        /\ pc = "Success" => "error" \notin DOMAIN result
        /\ (Ended /\ worker.type = "return" /\ "error" \in DOMAIN worker.val
              /\ (entry = "openai_chat_completion_create_retrying"
                    => worker.dur <= timeout))
             => /\ pc = "RetryableFailure"
                /\ exc.kind = "APIError"
                /\ exc.arg = worker.val.error

C1_Witness ==
    /\ entry = "openai_chat_completion_create_retrying"
    /\ pc = "RetryableFailure"
    /\ worker.type = "return"
    /\ worker.val = [choices |-> "c1", error |-> "overloaded"]
    /\ exc.arg = "overloaded"

(* C2 as stated: whenever the remote call of a wrapper has raised an       *)
(* exception outside the five retryable classes, the wrapper has raised    *)
(* that exception to the caller and does nothing more.                     *)
C2_FatalAlwaysRaised ==
    (entry \in Wrappers /\ Ended /\ worker.type = "raise"
        /\ worker.exc.kind \notin RetryableErrors)
      => /\ pc = "FatalFailure"
         /\ exc = worker.exc

(* C2 as amended: the plain wrapper raises every non-retryable exception   *)
(* of the remote call at once; the guarded wrapper does so when the        *)
(* exception was raised within the executor's timeout and is not a         *)
(* concurrent.futures.TimeoutError.  The remote call is not invoked again  *)
(* and no delay is taken: nothing can happen after.                        *)
C2_FatalRaisedAtOnce ==
    (entry \in Wrappers /\ Ended /\ worker.type = "raise"
        /\ worker.exc.kind \notin RetryableErrors
        /\ (entry = "openai_chat_completion_create_retrying"
              => /\ worker.dur <= timeout
                 /\ worker.exc.kind # FuturesTimeoutError))
      => /\ pc = "FatalFailure"
         /\ exc = worker.exc
         /\ ~ENABLED Next

C2_Witness ==
    /\ entry = "openai_chat_completion_create_retrying"
    /\ pc = "FatalFailure"
    /\ exc = Exception("InvalidRequestError", "remote", "remote")
    /\ sleeps = 1
    /\ calls = 2

(* The counts of C3: when the remote call of a wrapper only raised         *)
(* retryable exceptions, N of them, and then returned a clean Response,    *)
(* the wrapper slept N times, invoked the remote call N + 1 times and      *)
(* returned the Response of the last invocation.                           *)
C3_Counts ==
    (entry \in Wrappers /\ pc = "Success" /\ embedded = 0 /\ overdue = 0
        /\ absorbed = 0)
      => /\ sleeps = raisedRetryable
         /\ calls = raisedRetryable + 1
         /\ tries = calls
         /\ result = worker.val
         /\ seconds <= max_value * factor[2]

(* C3 as stated: the counts, and each delay slept is at least the delay    *)
(* slept before it.                                                        *)
C3_DelaysNonDecreasing ==
    [][/\ C3_Counts'
       /\ (sleeps' = sleeps + 1 /\ sleeps >= 1) => seconds' >= seconds]_vars

(* C3 as amended: the counts; the waits of the schedule are non-decreasing *)
(* and at most 60, and each delay slept lies between 0 and the scheduled   *)
(* wait.                                                                   *)
C3_ScheduleNonDecreasing ==
    /\ []C3_Counts
    /\ [][sleeps' = sleeps + 1
            => /\ value' >= value
               /\ value' <= max_value * factor[2]
               /\ seconds' >= 0
               /\ seconds' <= value']_vars

C3_Witness ==
    /\ entry = "openai_completion_create_retrying"
    /\ pc = "Success"
    /\ raisedRetryable = MaxCalls - 1
    /\ sleeps = MaxCalls - 1
    /\ embedded = 0
    /\ value = max_value * factor[2]

(* C4: when the first invocation of the plain wrapper's remote call        *)
(* returns a Response without the key "error", the wrapper returns that    *)
(* Response, having invoked the remote call once, slept never and logged   *)
(* nothing.                                                                *)
C4_CleanReturnedFirst ==
    (entry = "openai_completion_create_retrying" /\ Ended /\ calls = 1
        /\ worker.type = "return" /\ "error" \notin DOMAIN worker.val)
      => /\ pc = "Success"
         /\ result = worker.val
         /\ tries = 1
         /\ sleeps = 0
         /\ warnings = 0

C4_Witness ==
    /\ entry = "openai_completion_create_retrying"
    /\ pc = "Success"
    /\ calls = 1
    /\ result = [choices |-> "c2"]

(* C5 as stated: whenever the callable handed to request_with_timeout has *)
(* raised an exception, the executor has raised it to its caller.          *)
C5_EveryExceptionPropagates ==
    (entry = "request_with_timeout" /\ Ended /\ worker.type = "raise")
      => /\ pc = "FatalFailure"
         /\ exc = worker.exc

(* C5 as amended: an exception the callable raises within the timeout and  *)
(* that is not a concurrent.futures.TimeoutError is raised to the caller   *)
(* of the executor at once, and the callable is not invoked again: nothing *)
(* can happen after.                                                       *)
C5_ExceptionInTimePropagates ==
    (entry = "request_with_timeout" /\ Ended /\ worker.type = "raise"
        /\ worker.dur <= timeout /\ worker.exc.kind # FuturesTimeoutError)
      => /\ pc = "FatalFailure"
         /\ exc = worker.exc
         /\ ~ENABLED Next

C5_Witness ==
    /\ entry = "request_with_timeout"
    /\ pc = "FatalFailure"
    /\ exc = Exception("RateLimitError", "remote", "remote")
    /\ discards = 1
    /\ calls = 2

C7_NoExecutorTimeoutInBackoff ==
    (entry = "openai_chat_completion_create_retrying"
        /\ pc \in {"RetryableFailure", "FatalFailure"})
      => /\ worker.type \in {"return", "raise"}
         /\ worker.dur <= timeout
         /\ exc.kind = "Timeout" => /\ worker.type = "raise"
                                    /\ exc = worker.exc
                                    /\ exc.by = "remote"

C7_Witness ==
    /\ entry = "openai_chat_completion_create_retrying"
    /\ pc = "RetryableFailure"
    /\ exc = Exception("Timeout", "remote", "remote")
    /\ discards >= 1

(* C8: every invocation of the remote call of a wrapper is given the       *)
(* positional and keyword arguments the caller passed.                     *)
C8_ForwardedVerbatim ==
    (entry \in Wrappers /\ calls > 0) => received = request

(* C9: a wrapper raises no retryable exception to its caller, and after    *)
(* each retryable failure it sleeps and goes on to the next attempt.       *)
C9_NeverGivesUp ==
    /\ [](entry \in Wrappers /\ pc = "FatalFailure"
            => exc.kind \notin RetryableErrors)
    /\ [][pc = "RetryableFailure"
            => pc' = "Attempting" /\ sleeps' = sleeps + 1]_vars

C9_Witness ==
    /\ entry \in Wrappers
    /\ pc = "Attempting"
    /\ sleeps = MaxCalls - 1
    /\ embedded >= 1
    /\ raisedRetryable >= 1

C11_WarningPerEmbeddedError ==
    entry \in Wrappers =>
        /\ warnings = embedded
        /\ warnings > 0 => "error" \in DOMAIN logged
        /\ warnings = 0 => logged = NoResponse
        /\ exc.by = "wrapper" => /\ logged = worker.val
                                 /\ exc.arg = logged.error

C11_Witness ==
    /\ entry = "openai_chat_completion_create_retrying"
    /\ pc = "Success"
    /\ warnings = 2
    /\ embedded = 2
    /\ raisedRetryable >= 1
    /\ discards >= 1

(* C12: when the wait of request_with_timeout has timed out, the next     *)
(* attempt can be started while the abandoned invocation is still running. *)
C12_StartsWithoutWaiting ==
    (entry # "openai_completion_create_retrying" /\ running > 0
        /\ pc # "Waiting" /\ calls < MaxCalls)
      => ENABLED Submit

(* C13 as stated: at most one invocation of the remote call is running,    *)
(* and an invocation starts only when every earlier one was abandoned on   *)
(* timeout or failed with a retryable error.                               *)
C13_OnlyAfterTimeoutOrRetryable ==
    [][/\ running' <= 1
       /\ calls' = calls + 1
            => /\ running = 0
               /\ calls = overdue + raisedRetryable + embedded]_vars

(* C13 as amended: at most one invocation of the remote call is running,   *)
(* and an invocation starts only when every earlier one was abandoned on   *)
(* timeout, raised a concurrent.futures.TimeoutError that the executor     *)
(* caught, or failed with a retryable error.                               *)
C13_Sequential ==
    /\ [](running <= 1)
    /\ [][calls' = calls + 1
            => /\ running = 0
               /\ calls = overdue + absorbed + raisedRetryable + embedded]_vars

C13_Witness ==
    /\ entry = "openai_chat_completion_create_retrying"
    /\ pc = "Waiting"
    /\ running = 1
    /\ overdue >= 1
    /\ absorbed >= 1
    /\ raisedRetryable >= 1
    /\ embedded >= 1

(* C14: what request_with_timeout returns or raises is what the invocation *)
(* that ended within the timeout returned or raised; what an abandoned     *)
(* invocation returned or raised is not handed on, in the executor or      *)
(* through the guarded wrapper.                                            *)
C14_NoLeak ==
    (entry # "openai_completion_create_retrying" /\ pc \in Terminal
        /\ ~(pc = "FatalFailure" /\ exc.by = "wrapper"))
      => /\ worker.type \in {"return", "raise"}
         /\ worker.dur <= timeout
         /\ pc = "Success" => worker.type = "return" /\ result = worker.val
         /\ pc = "FatalFailure" => worker.type = "raise" /\ exc = worker.exc

C14_Witness ==
    /\ entry = "request_with_timeout"
    /\ pc = "Success"
    /\ abandoned = Returns([choices |-> "c1"], 50)
    /\ result = [choices |-> "c2"]

(* The states of the state machine of C15: the call of the remote call,   *)
(* the executor's submit, wait and shutdown are inside Attempting.         *)
Phase(p) ==
    IF p \in {"Attempting", "InCall", "Submit", "Waiting", "Shutdown"}
    THEN "Attempting" ELSE p

Transitions ==
    {<<"Idle", "Attempting">>, <<"Attempting", "Success">>,
     <<"Attempting", "RetryableFailure">>, <<"Attempting", "FatalFailure">>,
     <<"RetryableFailure", "Attempting">>}

(* C15: a call of a wrapper starts in Idle and takes only the transitions  *)
(* of the state machine; the step out of RetryableFailure sleeps one       *)
(* backoff delay and leads to Attempting, no other step sleeps, and no     *)
(* step leaves Success or FatalFailure.                                    *)
C15_Step ==
    entry \in Wrappers
      => /\ pc \notin Terminal
         /\ \/ Phase(pc') = Phase(pc) /\ sleeps' = sleeps
            \/ <<Phase(pc), Phase(pc')>> \in Transitions
         /\ pc = "RetryableFailure"
              => /\ pc' = "Attempting"
                 /\ sleeps' = sleeps + 1
                 /\ calls' = calls
         /\ pc # "RetryableFailure" => sleeps' = sleeps

C15_StateMachine ==
    /\ pc = "Idle"
    /\ [][C15_Step]_vars

C15_Witness ==
    /\ entry = "openai_completion_create_retrying"
    /\ pc = "FatalFailure"
    /\ sleeps = 2
    /\ calls = 3

(* The waits of C16 in half seconds: 1.5, 3, 6, 12, 24, 48, then 60. *)
C16_Waits(k) ==
    IF k < 6 THEN <<3, 6, 12, 24, 48, 96>>[k + 1] ELSE 120

(* C16: the wait scheduled before retry k, k = 0, 1, ..., is               *)
(* min(60, 1.5 * 2^k); it is below 60 for the first six retries and 60     *)
(* from the seventh on, and no delay slept is above 60.                    *)
C16_ExponentialSchedule ==
    /\ sleeps >= 1 => /\ value = C16_Waits(sleeps - 1)
                      /\ 2 * value = IF 3 * 2^sleeps < 4 * 60
                                     THEN 3 * 2^sleeps ELSE 4 * 60
                      /\ sleeps <= 6 => value < 2 * 60
                      /\ sleeps >= 7 => value = 2 * 60
    /\ seconds >= 0
    /\ seconds <= value
    /\ seconds <= 2 * 60

C16_Witness ==
    /\ sleeps >= 8
    /\ value = 120
    /\ seconds = 120

(* C18: in the guarded wrapper a delay is slept only after an attempt that *)
(* ended within the timeout with a retryable error or an embedded error;   *)
(* abandoning a timed-out attempt sleeps nothing and leaves the schedule   *)
(* where it is, so that the k-th wait is the k-th of the schedule whatever *)
(* the number of abandoned attempts.                                       *)
C18_Step ==
    entry = "openai_chat_completion_create_retrying"
      => /\ sleeps' # sleeps
              => /\ sleeps' = sleeps + 1
                 /\ worker.type \in {"return", "raise"}
                 /\ worker.dur <= timeout
                 /\ \/ worker.type = "return" /\ HasError(worker.val)
                    \/ worker.type = "raise"
                         /\ worker.exc.kind \in RetryableErrors
         /\ (discards' # discards \/ absorbed' # absorbed
               \/ overdue' # overdue)
              => UNCHANGED <<sleeps, value, seconds>>

C18_TimeoutsTakeNoBackoff ==
    /\ [](entry = "openai_chat_completion_create_retrying"
            => /\ sleeps + (IF pc = "RetryableFailure" THEN 1 ELSE 0)
                    = raisedRetryable + embedded
               /\ sleeps >= 1 => value = C16_Waits(sleeps - 1))
    /\ [][C18_Step]_vars

C18_Witness ==
    /\ entry = "openai_chat_completion_create_retrying"
    /\ pc = "Attempting"
    /\ sleeps = 2
    /\ value = 6
    /\ overdue >= 2
    /\ discards >= 2

----------------------------------------------------------------------------
(* Several callers: each of Invocations is one call of a wrapper, and the  *)
(* steps of the calls interleave.  Each call runs the steps above on its   *)
(* own record; the delay slept is not kept.                                *)

Invocations == {1, 2}

single == <<entry, request, env, budget, pc, tries, calls, received, timeout,
            worker, running, result, exc, sleeps, value, seconds, warnings,
            logged, discards, absorbed, overdue, abandoned, raisedRetryable,
            embedded>>

(* One wait generator for all calls of the decorated function. *)
WaitGenOf_shared(i) == 1

(* backoff's retry wrapper makes its wait generator inside each call. *)
WaitGenOf(i) == i

MultiOutcomes(e) ==
    {Returns([choices |-> "c1"], d) : d \in Quick}
        \cup {Returns([error |-> "rate limited"], d) : d \in Quick}
        \cup {Raises(Exception(k, "remote", "remote"), d) :
                k \in {"RateLimitError", "InvalidRequestError"}, d \in Quick}
        \cup {Returns([choices |-> "c2"], d) : d \in DurationsOf(e) \ Quick}
        \cup {Hangs}

MultiInit ==
    /\ inv \in [Invocations ->
                 [entry : Wrappers,
                  request : {r \in Requests : r.args = <<>>},
                  pc : {"Idle"}, tries : {0}, calls : {0},
                  timeout : {EVALS_THREAD_TIMEOUT}, worker : {NoWorker},
                  result : {NoResponse}, exc : {NoException}, sleeps : {0},
                  value : {0}, failures : {0}]]
    /\ gen = [i \in Invocations |-> 0]
    /\ entry = "request_with_timeout"
    /\ request = NoRequest
    /\ env = "arbitrary"
    /\ budget = 0
    /\ pc = "Idle"
    /\ tries = 0
    /\ calls = 0
    /\ received = NoRequest
    /\ timeout = EVALS_THREAD_TIMEOUT
    /\ worker = NoWorker
    /\ running = 0
    /\ result = NoResponse
    /\ exc = NoException
    /\ sleeps = 0
    /\ value = 0
    /\ seconds = 0
    /\ warnings = 0
    /\ logged = NoResponse
    /\ discards = 0
    /\ absorbed = 0
    /\ overdue = 0
    /\ abandoned = NoWorker
    /\ raisedRetryable = 0
    /\ embedded = 0

(* Caller i calls its wrapper: backoff makes the wait generator. *)
MCall(i) ==
    /\ inv[i].pc = "Idle"
    /\ inv' = [inv EXCEPT ![i].pc = "Attempting"]
    /\ gen' = [gen EXCEPT ![WaitGenOf(i)] = 0]
    /\ UNCHANGED single

(* Lines 46-49 and 84-87, then backoff's except clause, on the record c. *)
MFinish(c, o) ==
    IF o.type = "return" /\ ~IsEmbeddedError(o.val)
    THEN [c EXCEPT !.result = o.val, !.pc = "Success"]
    ELSE LET e == IF o.type = "return" THEN Reclassified(o.val) ELSE o.exc
         IN  [c EXCEPT !.exc = e,
                       !.pc = IF IsRetryable(e) THEN "RetryableFailure"
                              ELSE "FatalFailure",
                       !.failures =
                           IF \/ o.type = "return" /\ HasError(o.val)
                              \/ o.type = "raise"
                                   /\ o.exc.kind \in RetryableErrors
                           THEN @ + 1 ELSE @]

(* Line 45 for caller i. *)
MCompletionInvoke(i) ==
    /\ inv[i].pc = "Attempting"
    /\ inv[i].entry = "openai_completion_create_retrying"
    /\ inv[i].calls < MaxCallsEach
    /\ \E o \in MultiOutcomes(inv[i].entry) :
         inv' = [inv EXCEPT ![i].worker = o, ![i].tries = @ + 1,
                            ![i].calls = @ + 1, ![i].pc = "InCall"]
    /\ UNCHANGED <<gen, single>>

(* Lines 45-49 for caller i. *)
MCompletionReturn(i) ==
    /\ inv[i].pc = "InCall"
    /\ inv[i].worker.type \in {"return", "raise"}
    /\ inv' = [inv EXCEPT ![i] = MFinish(@, @.worker)]
    /\ UNCHANGED <<gen, single>>

(* Line 83 for caller i. *)
MChatAttempt(i) ==
    /\ inv[i].pc = "Attempting"
    /\ inv[i].entry = "openai_chat_completion_create_retrying"
    /\ inv' = [inv EXCEPT ![i].tries = @ + 1,
                          ![i].timeout = ExecutorTimeout(inv[i].request),
                          ![i].pc = "Submit"]
    /\ UNCHANGED <<gen, single>>

(* Lines 57-58 for caller i. *)
MSubmit(i) ==
    /\ inv[i].pc = "Submit"
    /\ inv[i].calls < MaxCallsEach
    /\ \E o \in MultiOutcomes(inv[i].entry) :
         inv' = [inv EXCEPT ![i].worker = o, ![i].calls = @ + 1,
                            ![i].pc = "Waiting"]
    /\ UNCHANGED <<gen, single>>

(* Lines 59-63 for caller i. *)
MFutureResult(i) ==
    /\ inv[i].pc = "Waiting"
    /\ inv' = [inv EXCEPT ![i] =
                 IF DoneInTime(@.worker, @.timeout)
                 THEN IF @.worker.type = "raise" /\ Caught(@.worker.exc)
                      THEN [@ EXCEPT !.pc = "Submit"]
                      ELSE MFinish(@, @.worker)
                 ELSE [@ EXCEPT !.pc = "Shutdown"]]
    /\ UNCHANGED <<gen, single>>

(* Line 57, shutdown(wait=True), for caller i. *)
MShutdownWait(i) ==
    /\ inv[i].pc = "Shutdown"
    /\ inv[i].worker.type \in {"return", "raise"}
    /\ inv' = [inv EXCEPT ![i].pc = "Submit"]
    /\ UNCHANGED <<gen, single>>

(* backoff's retry loop for caller i: the next wait of its generator. *)
MBackoff(i) ==
    /\ inv[i].pc = "RetryableFailure"
    /\ IF max_tries_exceeded(inv[i].tries)
       THEN /\ inv' = [inv EXCEPT ![i].pc = "FatalFailure"]
            /\ UNCHANGED gen
       ELSE /\ inv' = [inv EXCEPT ![i].value = expo(gen[WaitGenOf(i)]),
                                  ![i].sleeps = @ + 1,
                                  ![i].exc = NoException,
                                  ![i].worker = NoWorker,
                                  ![i].pc = "Attempting"]
            /\ gen' = [gen EXCEPT ![WaitGenOf(i)] = @ + 1]
    /\ UNCHANGED single

MultiNext ==
    \E i \in Invocations :
        \/ MCall(i)
        \/ MCompletionInvoke(i)
        \/ MCompletionReturn(i)
        \/ MChatAttempt(i)
        \/ MSubmit(i)
        \/ MFutureResult(i)
        \/ MShutdownWait(i)
        \/ MBackoff(i)

MultiSpec == MultiInit /\ [][MultiNext]_vars

(* C17: whatever the interleaving, each invocation has slept once for each *)
(* of its own retryable failures, its k-th wait is the k-th of the         *)
(* schedule, counted from the first, its tries are its own sleeps plus the *)
(* running one, and what it returns or raises is what its own last remote  *)
(* invocation returned or raised.                                          *)
C17_Independent ==
    \A i \in Invocations :
        LET c == inv[i]
        IN  /\ c.sleeps + (IF c.pc = "RetryableFailure" THEN 1 ELSE 0)
                 = c.failures
            /\ c.sleeps >= 1 => c.value = C16_Waits(c.sleeps - 1)
            /\ c.tries = c.sleeps
                           + (IF c.pc \in {"Idle", "Attempting"} THEN 0 ELSE 1)
            /\ c.calls <= MaxCallsEach
            /\ c.pc = "Success" => c.result = c.worker.val
            /\ (c.pc = "FatalFailure" /\ c.exc.by = "remote")
                 => c.exc = c.worker.exc

C17_Witness ==
    /\ inv[1].pc = "Success"
    /\ inv[1].sleeps = 2
    /\ inv[1].value = 6
    /\ inv[2].pc = "Attempting"
    /\ inv[2].sleeps = 1
    /\ inv[2].value = 3
    /\ inv[1].entry # inv[2].entry

====
